---- MODULE Spec2Model ----
(***************************************************************************)
(* Period-over-period comparison engine of the repository:                 *)
(*   data_analyzer.py        (script "v1", dimension mode only)            *)
(*   data_analyzer_v2.py     (script "v2", dimension and interval mode)    *)
(*   auto_monthly_analysis.py(script "auto", fully automatic)              *)
(* A run loads two period datasets, classifies the columns, aggregates     *)
(* each period, outer-joins the aggregates and computes delta and growth.  *)
(***************************************************************************)
EXTENDS Integers, Sequences, FiniteSets, Bags, TLC

(***************************************************************************)
(* Bounds of the model.                                                    *)
(***************************************************************************)
\* Total number of rows of the two period files together.
MaxRows == 3
\* Longest cutpoint list the user types.
MaxCut == 2
\* Largest change of a total in a growth table handed to format_results.
MaxDelta == 4

(***************************************************************************)
(* Cells.  A DataFrame cell is a number, a text, a truth value or missing   *)
(* (NaN).                                                                  *)
(***************************************************************************)
Num(x) == [t |-> "num", s |-> "", n |-> x]
Str(x) == [t |-> "str", s |-> x, n |-> 0]
Bool(b) == [t |-> "bool", s |-> "", n |-> IF b THEN 1 ELSE 0]
NaN == [t |-> "nan", s |-> "", n |-> 0]

IsNum(c) == c.t = "num"
IsNa(c) == c.t = "nan"

\* The numbers whose decimal text a cell of the model can hold.
Numerals == {-1, 0, 3, 100}

\* A text converts when it is the decimal text of a number.
Converts(c) ==
    \/ c.t \in {"num", "bool"}
    \/ c.t = "str" /\ \E x \in Numerals : ToString(x) = c.s

\* ToNumeric with every text taken as unconvertible.
ToNumeric_text_never_converts(c) ==
    IF c.t \in {"num", "bool"} THEN Num(c.n) ELSE NaN

\* pd.to_numeric(series, errors='coerce'): a number stays, a numeral text
\* is parsed, True and False count 1 and 0, all else becomes NaN.
ToNumeric(c) ==
    IF c.t \in {"num", "bool"} THEN Num(c.n)
    ELSE IF c.t = "str" /\ Converts(c)
    THEN Num(CHOOSE x \in Numerals : ToString(x) = c.s)
    ELSE NaN

\* FillNa0 with the fill left out: missing stays missing.
FillNa0_skipped(c) == c

\* Series.fillna(0)
FillNa0(c) == IF IsNa(c) THEN Num(0) ELSE c

\* Elementwise float subtraction: NaN propagates.
CellSub(a, b) == IF IsNum(a) /\ IsNum(b) THEN Num(a.n - b.n) ELSE NaN

(***************************************************************************)
(* The period files.  Columns of the input sheets and the values the       *)
(* model draws for them.                                                   *)
(***************************************************************************)
Columns == <<"ID", "region", "loan_amount", "sales">>

\* Every row carries the same record number in its ID column.
IdValues == <<7>>
RegionValues == <<"East", "West">>
LoanValues == <<100>>
SalesValues == <<-1, 0, 3>>

NRegion == Len(RegionValues)
NLoan == Len(LoanValues)
NSales == Len(SalesValues)
\* Number of distinct rows a sheet can hold in the model.
NRowKinds == NRegion * NLoan * NSales

\* The i-th row kind, 0 <= i < NRowKinds.
RowAt(i) ==
    [ID |-> Num(IdValues[1]),
     region |-> Str(RegionValues[(i \div (NLoan * NSales)) + 1]),
     loan_amount |-> Num(LoanValues[((i \div NSales) % NLoan) + 1]),
     sales |-> Num(SalesValues[(i % NSales) + 1])]

\* Non-decreasing index sequences of length <= n over lo..hi: one
\* representative order per multiset of rows (no modelled result depends on
\* the order of the rows of a sheet).
RECURSIVE SortedSeqs(_, _, _)
SortedSeqs(n, lo, hi) ==
    IF n = 0 THEN {<<>>}
    ELSE {<<>>} \cup
         UNION {{<<i>> \o s : s \in SortedSeqs(n - 1, i, hi)} : i \in lo..hi}

\* Index i < NRowKinds is a row of the current file, the others of the prior.
SheetPairs == SortedSeqs(MaxRows, 0, 2 * NRowKinds - 1)

IsCur(i) == i < NRowKinds
IsPrev(i) == i >= NRowKinds
CurRows(p) == LET q == SelectSeq(p, IsCur) IN [j \in 1..Len(q) |-> RowAt(q[j])]
PrevRows(p) ==
    LET q == SelectSeq(p, IsPrev)
    IN [j \in 1..Len(q) |-> RowAt(q[j] - NRowKinds)]

\* A sheet as read by read_excel: its header and its rows.  categories
\* lists the categories of the categorical column pd.cut adds (none here).
Sheet(rows) == [columns |-> Columns, rows |-> rows, categories |-> <<>>]

(***************************************************************************)
(* Irregular period files: the same rows with a defect a real workbook     *)
(* can have.                                                               *)
(***************************************************************************)
Irregularities ==
    {"nan_sales",            \* the first row of each sheet has no sales value
     "text_prior",           \* the prior sheet's sales column is stored as
                             \* text, its first cell being "n/a"
     "numeral_loan",         \* loan_amount is stored as text in both sheets
     "flag_loan",            \* loan_amount holds TRUE in every row
     "prior_without_sales",  \* the prior sheet has no sales column
     "narrow"}               \* both sheets hold region and sales only

\* The header of a sheet with the irregularity v.
IrregularColumns(v, prior) ==
    LET Kept(c) ==
            CASE v = "narrow" -> c \in {"region", "sales"}
              [] v = "prior_without_sales" /\ prior -> c # "sales"
              [] OTHER -> TRUE
    IN SelectSeq(Columns, Kept)

\* The cell of column c in the row r at position j of its sheet.
IrregularCell(v, prior, j, r, c) ==
    CASE v = "nan_sales" /\ c = "sales" /\ j = 1 -> NaN
      [] v = "text_prior" /\ c = "sales" /\ prior ->
             IF j = 1 THEN Str("n/a") ELSE Str(ToString(r[c].n))
      [] v = "numeral_loan" /\ c = "loan_amount" -> Str(ToString(r[c].n))
      [] v = "flag_loan" /\ c = "loan_amount" -> Bool(TRUE)
      [] OTHER -> r[c]

IrregularSheet(v, prior, rows) ==
    LET cols == IrregularColumns(v, prior)
    IN [columns |-> cols,
        rows |-> [j \in DOMAIN rows |->
                     [c \in {cols[k] : k \in DOMAIN cols} |->
                         IrregularCell(v, prior, j, rows[j], c)]],
        categories |-> <<>>]

Scripts == {"v1", "v2", "auto"}

\* The scripts run on a file pair with the irregularity v.  The automatic
\* script sums its metric columns as they are stored, so it is run on the
\* pairs whose metric columns hold numbers in both sheets.
ScriptsFor(v) ==
    IF v \in {"nan_sales", "numeral_loan", "narrow"} THEN Scripts
    ELSE {"v1", "v2"}

\* The exclude_columns argument AutoMonthlyAnalyzer is constructed with.
ExcludeArgs == {<<>>, <<"Region">>, <<"SALES">>}

VARIABLES
    script,               \* which program runs
    exclude_columns,      \* auto: the user's exclusion names
    current_file,         \* the current period's workbook on disk
    previous_file,        \* the prior period's workbook on disk
    pc,                   \* position of the run driver
    log,                  \* the steps the run has announced so far
    current_month_data,   \* the current period's sheet once loaded
    previous_month_data,  \* the prior period's sheet once loaded
    dimension_columns,    \* classifier output
    metric_columns,       \* classifier output
    mode,                 \* v2: "dimension" | "interval"; "none" before the choice
    selected_dimensions,  \* grouping keys of the run
    groupby_observed,     \* the installed pandas' default of groupby(observed=)
    selected_metric,      \* v2 interval mode: the metric that is binned
    typed_cutpoints,      \* v2 interval mode: the cutpoints as the user typed them
    cutpoints,            \* v2 interval mode: the sorted cutpoints
    labels,               \* v2 interval mode: the interval labels
    current_binned,       \* v2 interval mode: current sheet with its interval column
    previous_binned,      \* v2 interval mode: prior sheet with its interval column
    current_summary,      \* aggregate of the current period
    previous_summary,     \* aggregate of the prior period
    merged_table,         \* auto: the merged wide table (merged_df of run_analysis)
    final_result,         \* the comparison
    formatted_df          \* auto: the comparison with its percentage texts

\* What a run reads and never writes.
inputVars == <<script, exclude_columns, current_file, previous_file, groupby_observed>>
dataVars == <<current_month_data, previous_month_data>>
classVars == <<dimension_columns, metric_columns>>
binVars == <<selected_metric, typed_cutpoints, cutpoints, labels, current_binned, previous_binned>>
aggVars == <<current_summary, previous_summary>>

vars == <<script, exclude_columns, current_file, previous_file, pc, log,
          current_month_data, previous_month_data,
          dimension_columns, metric_columns, mode, selected_dimensions,
          groupby_observed, selected_metric, typed_cutpoints, cutpoints, labels,
          current_binned, previous_binned,
          current_summary, previous_summary, merged_table, final_result,
          formatted_df>>

(***************************************************************************)
(* Generic helpers.                                                        *)
(***************************************************************************)
Range(f) == {f[i] : i \in DOMAIN f}

Abs(x) == IF x < 0 THEN -x ELSE x

RECURSIVE SeqSum(_)
SeqSum(q) == IF q = <<>> THEN 0 ELSE Head(q) + SeqSum(Tail(q))

\* Sum of w[x] over the finite set S.
RECURSIVE SetSum(_, _)
SetSum(S, w) ==
    IF S = {} THEN 0
    ELSE LET x == CHOOSE y \in S : TRUE IN w[x] + SetSum(S \ {x}, w)

\* The elements of the sequence q at the positions in P, in q's order.
RECURSIVE SubSeqAt(_, _, _)
SubSeqAt(q, P, i) ==
    IF i > Len(q) THEN <<>>
    ELSE (IF i \in P THEN <<q[i]>> ELSE <<>>) \o SubSeqAt(q, P, i + 1)

\* Python's round(): nearest, ties to even.  The nearest integer to n / d.
RoundHalfEven(n, d) ==
    LET nn == IF d < 0 THEN -n ELSE n
        dd == Abs(d)
        q == nn \div dd
        r == nn - q * dd
    IN IF 2 * r < dd THEN q
       ELSE IF 2 * r > dd THEN q + 1
       ELSE IF q % 2 = 0 THEN q ELSE q + 1

(***************************************************************************)
(* DataFrames.  A frame is its column list and its rows; an aggregate or   *)
(* a comparison holds its rows as a bag (their order is not modelled).     *)
(***************************************************************************)
\* pd.DataFrame(): no column, no row.
EmptyDataFrame ==
    [keys |-> <<>>, metrics |-> <<>>, columns |-> <<>>, rows |-> EmptyBag]

\* DataFrame.empty
IsEmptyFrame(f) ==
    \/ BagToSet(f.rows) = {}
    \/ (f.keys = <<>> /\ f.metrics = <<>>)

\* The values of a frame's key column(s), one entry per distinct value.
KeysOf(f) == {r.key : r \in BagToSet(f.rows)}

\* Number of rows of the frame whose key is k.
RowsWithKey(f, k) ==
    LET R == BagToSet(f.rows)
    IN SetSum(R, [r \in R |-> IF r.key = k THEN CopiesIn(r, f.rows) ELSE 0])

\* Series.dtype of a sheet column: text makes it object, an empty sheet is
\* read with object columns.
Dtype(df, col) ==
    IF df.rows = <<>> THEN "object"
    ELSE IF \E i \in DOMAIN df.rows : df.rows[i][col].t = "str" THEN "object"
    ELSE IF \A i \in DOMAIN df.rows : df.rows[i][col].t = "bool" THEN "bool"
    ELSE IF \E i \in DOMAIN df.rows : df.rows[i][col].t = "bool" THEN "object"
    ELSE "float64"

\* non_null_values.head(10): the probe looks at the first ten values.
SampleSize == 10

\* len(df[col].dropna())
NonNullCount(df, col) ==
    Cardinality({i \in DOMAIN df.rows : ~IsNa(df.rows[i][col])})

(***************************************************************************)
(* Column Classifier.                                                      *)
(***************************************************************************)
\* analyze_columns with the metric list built back to front.
analyze_columns_reversed(df) ==
    LET Seen(c) == NonNullCount(df, c) # 0
        IsDimension(c) == Seen(c) /\ Dtype(df, c) \in {"object", "string"}
        IsMetric(c) == Seen(c) /\ Dtype(df, c) \notin {"object", "string"}
        m == SelectSeq(df.columns, IsMetric)
    IN <<SelectSeq(df.columns, IsDimension),
         [i \in DOMAIN m |-> m[Len(m) + 1 - i]]>>

\* pd.to_numeric(non_null_values.head(10), errors='raise') does not raise.
SampleConverts(df, col) ==
    LET Valued == {i \in DOMAIN df.rows : ~IsNa(df.rows[i][col])}
        Sampled == {i \in Valued :
                       Cardinality({j \in Valued : j <= i}) <= SampleSize}
    IN \A i \in Sampled : Converts(df.rows[i][col])

\* ExcelDataAnalyzer.analyze_columns (the same code in both versions):
\* <<dimension_cols, metric_cols>>, each in the sheet's column order.  A
\* column without a value is skipped, a text column is a dimension, a
\* numeric one a metric, and any other is probed.
analyze_columns(df) ==
    LET Seen(c) == NonNullCount(df, c) # 0
        Textual(c) == Dtype(df, c) \in {"object", "string"}
        Numeric(c) == Dtype(df, c) \in {"int64", "int32", "float64", "float32"}
        IsDimension(c) ==
            /\ Seen(c)
            /\ \/ Textual(c)
               \/ ~Numeric(c) /\ ~SampleConverts(df, c)
        IsMetric(c) ==
            /\ Seen(c)
            /\ ~Textual(c)
            /\ Numeric(c) \/ SampleConverts(df, c)
    IN <<SelectSeq(df.columns, IsDimension), SelectSeq(df.columns, IsMetric)>>

\* AutoMonthlyAnalyzer.__init__: default_exclude (its Latin-script names).
default_exclude ==
    {"customer_id", "cust_id", "order_id", "order_no", "product_id",
     "prod_id", "date", "time", "datetime", "ID", "id", "Id", "iD"}

\* str.lower() on the names the model uses.
Lower(c) ==
    CASE c \in {"ID", "Id", "iD"} -> "id"
      [] c \in {"Date", "DATE"} -> "date"
      [] c \in {"Region", "REGION"} -> "region"
      [] c \in {"Sales", "SALES"} -> "sales"
      [] OTHER -> c

\* exclude_set with the names kept as they were written.
exclude_set_as_written == default_exclude \cup Range(exclude_columns)

\* self.exclude_set: default and user-supplied names together, lower-cased.
exclude_set == {Lower(c) : c \in default_exclude \cup Range(exclude_columns)}

\* AutoMonthlyAnalyzer.identify_column_types
identify_column_types(df) ==
    LET Kept(c) == Lower(c) \notin exclude_set
        IsDimension(c) == Kept(c) /\ Dtype(df, c) \in {"object", "category"}
        IsMetric(c) ==
            /\ Kept(c)
            /\ Dtype(df, c) \notin {"object", "category"}
            /\ Dtype(df, c) \in {"int64", "float64"}
    IN <<SelectSeq(df.columns, IsDimension), SelectSeq(df.columns, IsMetric)>>

(***************************************************************************)
(* Aggregator.                                                             *)
(***************************************************************************)
\* The grouping key of a sheet row.
KeyOf(row, cols) == [j \in 1..Len(cols) |-> row[cols[j]]]

\* DataFrame.groupby(cols)[metrics].sum().reset_index(): one row per key,
\* rows with a missing key are left out (dropna), sum() skips NaN.  Grouping
\* by a categorical column lists every category unless observed is set.
GroupBySum(df, cols, metrics) ==
    LET rows == df.rows
        Keyed == {i \in DOMAIN rows :
                     \A j \in 1..Len(cols) : ~IsNa(rows[i][cols[j]])}
        seen == {KeyOf(rows[i], cols) : i \in Keyed}
        unobserved ==
            IF cols = <<"interval">> /\ ~groupby_observed
            THEN {<<Str(df.categories[j])>> : j \in DOMAIN df.categories}
            ELSE {}
        Members(k) == {i \in Keyed : KeyOf(rows[i], cols) = k}
        Total(k, m) ==
            Num(SetSum(Members(k),
                       [i \in DOMAIN rows |->
                           IF IsNum(rows[i][m]) THEN rows[i][m].n ELSE 0]))
    IN [keys |-> cols, metrics |-> metrics, columns |-> cols \o metrics,
        rows |-> SetToBag({[key |-> k,
                            tot |-> [m \in Range(metrics) |-> Total(k, m)]] :
                           k \in seen \cup unobserved})]

\* df_copy[col] = pd.to_numeric(df_copy[col], errors='coerce')
CoerceColumns(df, cols) ==
    [df EXCEPT !.rows =
        [i \in DOMAIN df.rows |->
            [c \in DOMAIN df.rows[i] |->
                IF c \in cols THEN ToNumeric(df.rows[i][c]) ELSE df.rows[i][c]]]]

\* ExcelDataAnalyzer.group_and_summarize of data_analyzer.py: a missing
\* column or an empty key list raises, and the except clause answers with
\* an empty DataFrame.
group_and_summarize(df, group_by_cols, metric_cols) ==
    IF \/ group_by_cols = <<>>
       \/ \E c \in Range(group_by_cols) \cup Range(metric_cols) :
              c \notin Range(df.columns)
    THEN EmptyDataFrame
    ELSE GroupBySum(CoerceColumns(df, Range(metric_cols)), group_by_cols,
                    metric_cols)

\* ExcelDataAnalyzer.group_and_summarize of data_analyzer_v2.py: only the
\* metric columns the sheet has are coerced and summed.
group_and_summarize_v2(df, group_by_cols, metric_cols) ==
    LET Available(c) == c \in Range(df.columns)
        available_metrics == SelectSeq(metric_cols, Available)
    IN IF \/ group_by_cols = <<>>
          \/ \E c \in Range(group_by_cols) : c \notin Range(df.columns)
       THEN EmptyDataFrame
       ELSE GroupBySum(CoerceColumns(df, Range(available_metrics)),
                       group_by_cols, available_metrics)

\* aggregate_data grouping in every case: without a dimension all rows fall
\* into one group.
aggregate_data_grouped_always(df, dimension_cols, metric_cols) ==
    GroupBySum(df, dimension_cols, metric_cols)

\* AutoMonthlyAnalyzer.aggregate_data: no type coercion; without a
\* dimension the grand totals form the single row.
aggregate_data(df, dimension_cols, metric_cols) ==
    IF dimension_cols = <<>>
    THEN [keys |-> <<>>, metrics |-> metric_cols, columns |-> metric_cols,
          rows |-> SetToBag({[key |-> <<>>,
                              tot |-> [m \in Range(metric_cols) |->
                                  Num(SetSum(DOMAIN df.rows,
                                      [i \in DOMAIN df.rows |->
                                          IF IsNum(df.rows[i][m])
                                          THEN df.rows[i][m].n ELSE 0]))]]})]
    ELSE IF metric_cols = <<>> THEN EmptyDataFrame
    ELSE GroupBySum(df, dimension_cols, metric_cols)

(***************************************************************************)
(* Growth Rate Calculator.                                                 *)
(***************************************************************************)
\* A growth value is a float: the finite value num / den, an infinity or NaN.
Fin(n, d) == [k |-> "fin", num |-> n, den |-> d]
PosInf == [k |-> "inf", num |-> 0, den |-> 1]
NegInf == [k |-> "ninf", num |-> 0, den |-> 1]
NanGrowth == [k |-> "nan", num |-> 0, den |-> 1]

\* growth_pct with the quotient cut off (floored) instead of rounded.
growth_pct_floored(P, C) ==
    IF ~(IsNum(P) /\ P.n = 0)
    THEN IF IsNum(P) /\ IsNum(C)
         THEN Fin((10000 * (C.n - P.n)) \div P.n, 100)
         ELSE NanGrowth
    ELSE IF IsNum(C) /\ C.n > 0 THEN Fin(10000, 100) ELSE Fin(0, 100)

\* growth_pct with C >= 0 for C > 0 in the zero-prior branch.
growth_pct_geq(P, C) ==
    IF ~(IsNum(P) /\ P.n = 0)
    THEN IF IsNum(P) /\ IsNum(C)
         THEN Fin(RoundHalfEven(10000 * (C.n - P.n), P.n), 100)
         ELSE NanGrowth
    ELSE IF IsNum(C) /\ C.n >= 0 THEN Fin(10000, 100) ELSE Fin(0, 100)

\* The lambda of calculate_comparison (the same in both versions): the
\* growth in percent, kept in hundredths (den = 100):
\*   round((C - P) / P * 100, 2) if P != 0 else (100.0 if C > 0 else 0.0)
growth_pct(P, C) ==
    IF ~(IsNum(P) /\ P.n = 0)
    THEN IF IsNum(P) /\ IsNum(C)
         THEN Fin(RoundHalfEven(10000 * (C.n - P.n), P.n), 100)
         ELSE NanGrowth
    ELSE IF IsNum(C) /\ C.n > 0 THEN Fin(10000, 100) ELSE Fin(0, 100)

\* np.divide(C - P, P, out=full_like(inf), where=(P != 0))
divide_where(P, C) ==
    IF ~(IsNum(P) /\ P.n = 0)
    THEN IF IsNum(P) /\ IsNum(C) THEN Fin(C.n - P.n, P.n) ELSE NanGrowth
    ELSE PosInf

\* np.where((P == 0) & (C > 0), np.inf, growth_rate)
where_zero_to_positive(P, C, g) ==
    IF IsNum(P) /\ P.n = 0 /\ IsNum(C) /\ C.n > 0 THEN PosInf ELSE g

\* where_zero_to_zero left out.
where_zero_to_zero_skipped(P, C, g) == g

\* np.where((P == 0) & (C == 0), 0, growth_rate)
where_zero_to_zero(P, C, g) ==
    IF IsNum(P) /\ P.n = 0 /\ IsNum(C) /\ C.n = 0 THEN Fin(0, 1) ELSE g

\* The growth, as a ratio, AutoMonthlyAnalyzer.calculate_growth_rate gives
\* one row and metric.
growth_ratio(P, C) ==
    where_zero_to_zero(P, C, where_zero_to_positive(P, C, divide_where(P, C)))

(***************************************************************************)
(* Period Merger.                                                          *)
(***************************************************************************)
\* The bag that holds row f[x] once for every copy of x in the bag B.
BagImage(B, f) ==
    LET D == BagToSet(B)
    IN [r \in {f[x] : x \in D} |->
           SetSum({x \in D : f[x] = r}, [x \in D |-> CopiesIn(x, B)])]

\* The rows pd.merge(how=...) pairs: every current row with every prior row
\* of the same key; with left (right), also the current (prior) rows whose
\* key the other side lacks, the other side's metrics missing (NaN).
MergeRows(current_df, previous_df, M, left, right) ==
    LET A == BagToSet(current_df.rows)
        B == BagToSet(previous_df.rows)
        Side(r) == [m \in M |-> r.tot[m]]
        Missing == [m \in M |-> NaN]
        both == {<<a, b>> \in A \X B : a.key = b.key}
        onlyA == IF left THEN {a \in A : \A b \in B : b.key # a.key} ELSE {}
        onlyB == IF right THEN {b \in B : \A a \in A : a.key # b.key} ELSE {}
        parts ==
            {[row |-> [key |-> p[1].key, cur |-> Side(p[1]), prev |-> Side(p[2])],
              n |-> CopiesIn(p[1], current_df.rows)
                        * CopiesIn(p[2], previous_df.rows),
              of |-> <<p[1], p[2]>>] : p \in both}
            \cup {[row |-> [key |-> a.key, cur |-> Side(a), prev |-> Missing],
                   n |-> CopiesIn(a, current_df.rows), of |-> <<a>>] : a \in onlyA}
            \cup {[row |-> [key |-> b.key, cur |-> Missing, prev |-> Side(b)],
                   n |-> CopiesIn(b, previous_df.rows), of |-> <<b>>] : b \in onlyB}
    IN [r \in {p.row : p \in parts} |->
           SetSum({p \in parts : p.row = r}, [p \in parts |-> p.n])]

\* OuterMerge with how='inner'.
OuterMerge_inner(current_df, previous_df, M) ==
    MergeRows(current_df, previous_df, M, FALSE, FALSE)

\* pd.merge(current_df, previous_df, on=group_by_cols, how='outer',
\*          suffixes=...): the metrics of both frames get the suffixes.
OuterMerge(current_df, previous_df, M) ==
    MergeRows(current_df, previous_df, M, TRUE, TRUE)

\* The metric columns both frames hold (the ones pd.merge suffixes).
Overlap(current_df, previous_df) ==
    Range(current_df.metrics) \cap Range(previous_df.metrics)

\* merged[col] = merged[col].fillna(0) for the two columns of every metric
fillna_metrics(row, M) ==
    [row EXCEPT !.cur = [m \in M |-> FillNa0(row.cur[m])],
                !.prev = [m \in M |-> FillNa0(row.prev[m])]]

\* comparison_row with the change taken as prior minus current.
comparison_row_swapped(row, M) ==
    [key |-> row.key, prev |-> row.prev, cur |-> row.cur,
     change |-> [m \in M |-> CellSub(row.prev[m], row.cur[m])],
     growth |-> [m \in M |-> growth_pct(row.prev[m], row.cur[m])]]

\* The change and growth columns calculate_comparison adds to a merged row.
comparison_row(row, M) ==
    [key |-> row.key, prev |-> row.prev, cur |-> row.cur,
     change |-> [m \in M |-> CellSub(row.cur[m], row.prev[m])],
     growth |-> [m \in M |-> growth_pct(row.prev[m], row.cur[m])]]

\* The suffixes of the four result columns of a metric (they stand for the
\* Chinese suffixes of the source: prior month, current month, change,
\* growth in percent).
previous_col(col) == col \o "_prev"
current_col(col) == col \o "_cur"
change_col(col) == col \o "_change"
growth_col(col) == col \o "_growth_pct"

\* The extend loop with the current month's column put first.
metric_result_columns_current_first(cols) ==
    IF cols = <<>> THEN <<>>
    ELSE <<current_col(Head(cols)), previous_col(Head(cols)),
           change_col(Head(cols)), growth_col(Head(cols))>>
         \o [i \in 1..(4 * (Len(cols) - 1)) |-> "later"]

\* for col in metric_cols: result_columns.extend([...])
RECURSIVE metric_result_columns(_)
metric_result_columns(cols) ==
    IF cols = <<>> THEN <<>>
    ELSE <<previous_col(Head(cols)), current_col(Head(cols)),
           change_col(Head(cols)), growth_col(Head(cols))>>
         \o metric_result_columns(Tail(cols))

\* result_columns of calculate_comparison
result_columns(group_by_cols, cols) ==
    group_by_cols \o metric_result_columns(cols)

\* The frame calculate_comparison builds for the metrics in cols:
\* merged[result_columns].
ComparisonFrame(current_df, previous_df, group_by_cols, cols) ==
    LET M == Range(cols)
        merged == OuterMerge(current_df, previous_df, M)
        D == BagToSet(merged)
    IN [keys |-> group_by_cols, metrics |-> cols,
        columns |-> result_columns(group_by_cols, cols),
        rows |-> BagImage(merged,
                    [r \in D |-> comparison_row(fillna_metrics(r, M), M)])]

\* ExcelDataAnalyzer.calculate_comparison of data_analyzer.py: a key column
\* one frame lacks, or a metric that did not get its suffixes, raises, and
\* the except clause answers with an empty DataFrame.
calculate_comparison(current_df, previous_df, group_by_cols, metric_cols) ==
    IF \/ current_df.keys # group_by_cols
       \/ previous_df.keys # group_by_cols
       \/ \E m \in Range(metric_cols) : m \notin Overlap(current_df, previous_df)
    THEN EmptyDataFrame
    ELSE ComparisonFrame(current_df, previous_df, group_by_cols, metric_cols)

\* calculate_comparison_v2 giving up when a requested metric lacks a suffixed
\* column.
calculate_comparison_v2_all_or_nothing(current_df, previous_df, group_by_cols, metric_cols) ==
    IF \/ current_df.keys # group_by_cols
       \/ previous_df.keys # group_by_cols
       \/ \E m \in Range(metric_cols) : m \notin Overlap(current_df, previous_df)
    THEN EmptyDataFrame
    ELSE ComparisonFrame(current_df, previous_df, group_by_cols, metric_cols)

\* ExcelDataAnalyzer.calculate_comparison of data_analyzer_v2.py: only the
\* metrics that got both suffixes are reported.
calculate_comparison_v2(current_df, previous_df, group_by_cols, metric_cols) ==
    LET Both(m) == m \in Overlap(current_df, previous_df)
        available_metrics == SelectSeq(metric_cols, Both)
    IN IF current_df.keys # group_by_cols \/ previous_df.keys # group_by_cols
       THEN EmptyDataFrame
       ELSE ComparisonFrame(current_df, previous_df, group_by_cols,
                            available_metrics)

\* [f"{col}_<suffix>" for col in agg.columns] with the current month's
\* suffix (current) or the prior month's.
renamed_columns(agg, current) ==
    [i \in DOMAIN agg.columns |->
        IF current THEN current_col(agg.columns[i])
        ELSE previous_col(agg.columns[i])]

\* The column labels pd.merge gives the value columns of one side: the
\* suffix goes to the labels both sides hold.
suffixed_columns(agg, other, current) ==
    [i \in DOMAIN agg.metrics |->
        IF agg.metrics[i] \notin Range(other.metrics) THEN agg.metrics[i]
        ELSE IF current THEN current_col(agg.metrics[i])
        ELSE previous_col(agg.metrics[i])]

\* AutoMonthlyAnalyzer.merge_monthly_data: outer join on the dimensions (or
\* the two grand-total rows side by side), then merged.fillna(0).
merge_monthly_data(current_agg, previous_agg, dimension_cols) ==
    LET M == Overlap(current_agg, previous_agg)
        merged ==
            IF dimension_cols # <<>>
            THEN OuterMerge(current_agg, previous_agg, M)
            ELSE MergeRows(current_agg, previous_agg, M, FALSE, FALSE)
        D == BagToSet(merged)
        cols == LET In(m) == m \in M IN SelectSeq(current_agg.metrics, In)
    IN [keys |-> dimension_cols, metrics |-> cols,
        columns |->
            IF dimension_cols # <<>>
            THEN dimension_cols
                 \o suffixed_columns(current_agg, previous_agg, TRUE)
                 \o suffixed_columns(previous_agg, current_agg, FALSE)
            ELSE renamed_columns(current_agg, TRUE)
                 \o renamed_columns(previous_agg, FALSE),
        rows |-> BagImage(merged, [r \in D |-> fillna_metrics(r, M)])]

\* growth_col of calculate_growth_rate and formatted_col of format_results
\* (they stand for the Chinese suffixes "growth rate" and "growth rate,
\* percentage").
growth_rate_col(metric) == metric \o "_growth"
formatted_col(metric) == metric \o "_growth_percentage"

\* AutoMonthlyAnalyzer.calculate_growth_rate: a growth column for every
\* metric of metric_cols that has both of its period columns.
calculate_growth_rate(merged_df, metric_cols) ==
    LET G == Range(metric_cols) \cap Range(merged_df.metrics)
        D == BagToSet(merged_df.rows)
        With(m) == m \in G
        added == SelectSeq(metric_cols, With)
    IN [merged_df EXCEPT
           !.columns = @ \o [i \in DOMAIN added |-> growth_rate_col(added[i])],
           !.rows =
               BagImage(merged_df.rows,
                   [r \in D |-> [key |-> r.key, prev |-> r.prev, cur |-> r.cur,
                                 growth |-> [m \in G |->
                                     growth_ratio(r.prev[m], r.cur[m])]]])]

(***************************************************************************)
(* Result Formatter (auto_monthly_analysis.py).  A text is the sequence of *)
(* its characters.                                                         *)
(***************************************************************************)
\* The one-character text of the infinity sign (U+221E).
InfinitySign == <<"(infinity sign)">>

\* The decimal digits of a natural number.
RECURSIVE Digits(_)
Digits(n) ==
    IF n < 10 THEN <<ToString(n)>>
    ELSE Digits(n \div 10) \o <<ToString(n % 10)>>

\* f"{value:.2%}" for the finite value num / den: the percentage rounded to
\* two decimals; a negative value keeps its sign when it rounds to zero.
percent_2f(num, den) ==
    LET h == RoundHalfEven(10000 * num, den)
        negative == (num < 0 /\ den > 0) \/ (num > 0 /\ den < 0)
        a == Abs(h)
        cents == a % 100
    IN (IF negative THEN <<"-">> ELSE <<>>)
       \o Digits(a \div 100) \o <<".">>
       \o (IF cents < 10 THEN <<"0">> ELSE <<>>) \o Digits(cents)
       \o <<"%">>

\* format_percentage without its np.isinf branch: the infinities go through
\* the number format.
format_percentage_no_isinf(value) ==
    IF value.k = "nan" THEN <<"N", "/", "A">>
    ELSE IF value.k = "inf" THEN <<"i", "n", "f", "%">>
    ELSE IF value.k = "ninf" THEN <<"-", "i", "n", "f", "%">>
    ELSE percent_2f(value.num, value.den)

\* format_percentage of format_results
format_percentage(value) ==
    IF value.k = "nan" THEN <<"N", "/", "A">>
    ELSE IF value.k \in {"inf", "ninf"}
         THEN IF value.k = "inf" THEN InfinitySign ELSE <<"-">> \o InfinitySign
    ELSE percent_2f(value.num, value.den)

\* AutoMonthlyAnalyzer.format_results: a percentage text column for every
\* metric of metric_cols that has a growth column.
format_results(result_df, metric_cols) ==
    LET D == BagToSet(result_df.rows)
        G == {m \in Range(metric_cols) :
                 \A r \in D : m \in DOMAIN r.growth}
        With(m) == growth_rate_col(m) \in Range(result_df.columns)
        added == SelectSeq(metric_cols, With)
    IN [result_df EXCEPT
           !.columns = @ \o [i \in DOMAIN added |-> formatted_col(added[i])],
           !.rows =
               BagImage(result_df.rows,
                   [r \in D |-> [key |-> r.key, prev |-> r.prev, cur |-> r.cur,
                                 growth |-> r.growth,
                                 pct |-> [m \in G |->
                                     format_percentage(r.growth[m])]]])]

(***************************************************************************)
(* Interval Binner (data_analyzer_v2.py).                                  *)
(***************************************************************************)
\* The numbers the user may type as cutpoints in a run.
CutValues == {-1, 0, 3, 100}

\* sorted(cutpoints)
RECURSIVE Insert(_, _)
Insert(x, q) ==
    IF q = <<>> THEN <<x>>
    ELSE IF x <= Head(q) THEN <<x>> \o q
    ELSE <<Head(q)>> \o Insert(x, Tail(q))

\* sorted() left out: the list stays as typed.
Sorted_skipped(q) == q

RECURSIVE Sorted(_)
Sorted(q) == IF q = <<>> THEN <<>> ELSE Insert(Head(q), Sorted(Tail(q)))

\* str() of a float that holds a whole number: 100.0 prints as "100.0".
FloatStr(x) == ToString(x) \o ".0"

\* analyze_metric_range: <<min_val, max_val>> of the metric's numeric values
\* over both sheets together; <<0, -1>> stands for "no numeric value".
analyze_metric_range(metric_name) ==
    LET all == current_month_data.rows \o previous_month_data.rows
        \* pd.concat fills the column of a sheet that lacks it with NaN
        Value(r) == IF metric_name \in DOMAIN r THEN ToNumeric(r[metric_name])
                    ELSE NaN
        vals == {Value(all[i]).n : i \in {j \in DOMAIN all : IsNum(Value(all[j]))}}
    IN IF vals = {} THEN <<0, -1>>
       ELSE <<CHOOSE x \in vals : \A y \in vals : x <= y,
              CHOOSE x \in vals : \A y \in vals : y <= x>>

\* get_interval_cutpoints: the typed numbers sorted, accepted when every
\* one lies within [min_val, max_val] (comparisons with NaN bounds never
\* reject).
CutpointsAccepted(typed, range) ==
    \/ range = <<0, -1>>
    \/ \A i \in DOMAIN typed : ~(typed[i] < range[1] \/ typed[i] > range[2])

\* ExcelDataAnalyzer.create_interval_labels
create_interval_labels(cuts) ==
    IF Len(cuts) > 0
    THEN <<"<=" \o FloatStr(cuts[1])>>
         \o [i \in 1..(Len(cuts) - 1) |->
                FloatStr(cuts[i]) \o "-" \o FloatStr(cuts[i + 1])]
         \o <<">" \o FloatStr(cuts[Len(cuts)])>>
    ELSE <<>>

\* A bin edge: minus infinity (inf = -1), a number (inf = 0), plus infinity.
Edge(i, x) == [inf |-> i, v |-> x]

\* bin_edges without the two infinite edges.
bin_edges_finite(cuts) == [i \in DOMAIN cuts |-> Edge(0, cuts[i])]

\* bins = [-np.inf] + cutpoints + [np.inf]
bin_edges(cuts) ==
    <<Edge(-1, 0)>> \o [i \in DOMAIN cuts |-> Edge(0, cuts[i])] \o <<Edge(1, 0)>>

\* edge <= x, for a finite x
EdgeLeq(e, x) == e.inf = -1 \/ (e.inf = 0 /\ e.v <= x)

\* pd.cut(..., duplicates='raise'): bin edges must be unique.
CutRaises(cuts) == \E i, j \in DOMAIN cuts : i # j /\ cuts[i] = cuts[j]

\* cut_cell with a missing value put into the lowest interval.
cut_cell_missing_in_lowest(c, bins, labs) ==
    IF ~IsNum(c) THEN Str(labs[1])
    ELSE LET ids == Cardinality({j \in DOMAIN bins : EdgeLeq(bins[j], c.n)})
         IN IF ids = 0 \/ ids = Len(bins) THEN NaN ELSE Str(labs[ids])

\* pd.cut(x, bins, labels, include_lowest=True, right=False) for one cell:
\* ids = bins.searchsorted(x, side='right'); NaN, ids = 0 and ids = len(bins)
\* give no label.
cut_cell(c, bins, labs) ==
    IF ~IsNum(c) THEN NaN
    ELSE LET ids == Cardinality({j \in DOMAIN bins : EdgeLeq(bins[j], c.n)})
         IN IF ids = 0 \/ ids = Len(bins) THEN NaN ELSE Str(labs[ids])

\* ExcelDataAnalyzer.apply_interval_binning (for cutpoints pd.cut accepts)
apply_interval_binning(df, metric_name, cuts, labs) ==
    [columns |-> df.columns \o <<"interval">>,
     categories |-> labs,
     rows |-> [i \in DOMAIN df.rows |->
         LET x == ToNumeric(df.rows[i][metric_name])
         IN [c \in DOMAIN df.rows[i] \cup {"interval"} |->
                IF c = "interval" THEN cut_cell(x, bin_edges(cuts), labs)
                ELSE IF c = metric_name THEN x
                ELSE df.rows[i][c]]]]

(***************************************************************************)
(* The run drivers: ExcelDataAnalyzer.run of data_analyzer.py ("v1"),      *)
(* run / run_dimension_summary / run_metric_interval_summary of            *)
(* data_analyzer_v2.py ("v2") and AutoMonthlyAnalyzer.run_analysis         *)
(* ("auto").  A run starts with the two period files on disk.             *)
(***************************************************************************)
NoSheet == Sheet(<<>>)

\* What the user may type at the cutpoint prompt.
CutInputs == UNION {[1..n -> CutValues] : n \in 1..MaxCut}

\* A workbook on disk: it is there and readable ("ok"), not there
\* ("missing"), or there but not readable as a workbook ("unreadable").
File(status, sheet) == [status |-> status, sheet |-> sheet]

\* The two period files of a run, the current one first.
FilePairs ==
    {<<File("ok", Sheet(CurRows(p))), File("ok", Sheet(PrevRows(p)))>> :
         p \in SheetPairs}
    \cup {<<File(a, NoSheet), File(b, NoSheet)>> :
              a \in {"ok", "missing", "unreadable"},
              b \in {"ok", "missing", "unreadable"}}

IrregularFilePairs ==
    {[v |-> v,
      files |-> <<File("ok", IrregularSheet(v, FALSE, CurRows(p))),
                  File("ok", IrregularSheet(v, TRUE, PrevRows(p)))>>] :
         v \in Irregularities, p \in SheetPairs}

\* The state of a freshly constructed analyzer of script sc, about to be
\* run on the two files.
RunStart(sc, cf, pf) ==
    /\ script = sc
    /\ exclude_columns \in (IF sc = "auto" THEN ExcludeArgs ELSE {<<>>})
    /\ current_file = cf
    /\ previous_file = pf
    /\ pc = "start"
    /\ log = <<>>
    /\ current_month_data = NoSheet
    /\ previous_month_data = NoSheet
    \* only v2 groups by a categorical column
    /\ groupby_observed \in (IF sc = "v2" THEN BOOLEAN ELSE {TRUE})
    /\ dimension_columns = <<>>
    /\ metric_columns = <<>>
    /\ mode = "none"
    /\ selected_dimensions = <<>>
    /\ selected_metric = ""
    /\ typed_cutpoints = <<>>
    /\ cutpoints = <<>>
    /\ labels = <<>>
    /\ current_binned = NoSheet
    /\ previous_binned = NoSheet
    /\ current_summary = EmptyDataFrame
    /\ previous_summary = EmptyDataFrame
    /\ merged_table = EmptyDataFrame
    /\ final_result = EmptyDataFrame
    /\ formatted_df = EmptyDataFrame

Init == \E sc \in Scripts, fp \in FilePairs : RunStart(sc, fp[1], fp[2])

\* Step 1 of run (v1, v2): the two date prompts, each repeated until
\* validate_date_format accepts what was typed.
EnterDate ==
    /\ script \in {"v1", "v2"}
    /\ pc \in {"start", "cur_date_ok"}
    /\ \E valid \in BOOLEAN :
          IF valid
          THEN /\ pc' = IF pc = "start" THEN "cur_date_ok" ELSE "dates_ok"
               /\ log' = Append(log, "date_valid")
          ELSE UNCHANGED <<pc, log>>
    /\ UNCHANGED <<inputVars, dataVars, classVars, mode, selected_dimensions,
                   binVars, aggVars, merged_table, final_result, formatted_df>>

\* Step 2 of run (v1, v2): check_file_exists on both generated names.
CheckFiles ==
    /\ script \in {"v1", "v2"}
    /\ pc = "dates_ok"
    /\ IF current_file.status # "missing" /\ previous_file.status # "missing"
       THEN /\ pc' = "files_found"
            /\ log' = Append(log, "files_found")
       ELSE /\ pc' = "failed"
            /\ log' = Append(log, "file_missing")
    /\ UNCHANGED <<inputVars, dataVars, classVars, mode, selected_dimensions,
                   binVars, aggVars, merged_table, final_result, formatted_df>>

\* LoadExcelData without the None check behind the two loads.
LoadExcelData_unchecked ==
    /\ script \in {"v1", "v2"}
    /\ pc = "files_found"
    /\ current_month_data' = (IF current_file.status = "ok"
                              THEN current_file.sheet ELSE NoSheet)
    /\ previous_month_data' = (IF previous_file.status = "ok"
                               THEN previous_file.sheet ELSE NoSheet)
    /\ pc' = "loaded"
    /\ log' = Append(log, IF current_file.status = "ok" /\ previous_file.status = "ok"
                          THEN "files_loaded" ELSE "load_failed")
    /\ UNCHANGED <<inputVars, classVars, mode, selected_dimensions,
                   binVars, aggVars, merged_table, final_result, formatted_df>>

\* Step 3 of run (v1, v2): load_excel_data on both files (None, here the
\* sheet without rows, for a file that cannot be read), then the None check.
LoadExcelData ==
    /\ script \in {"v1", "v2"}
    /\ pc = "files_found"
    /\ current_month_data' = (IF current_file.status = "ok"
                              THEN current_file.sheet ELSE NoSheet)
    /\ previous_month_data' = (IF previous_file.status = "ok"
                               THEN previous_file.sheet ELSE NoSheet)
    /\ IF current_file.status = "ok" /\ previous_file.status = "ok"
       THEN /\ pc' = "loaded"
            /\ log' = Append(log, "files_loaded")
       ELSE /\ pc' = "failed"
            /\ log' = Append(log, "load_failed")
    /\ UNCHANGED <<inputVars, classVars, mode, selected_dimensions,
                   binVars, aggVars, merged_table, final_result, formatted_df>>

\* Step 1 of run_analysis: load_data re-raises what read_excel raises.
LoadData ==
    /\ script = "auto"
    /\ pc = "start"
    /\ log' = Append(log, "load_data")
    /\ IF current_file.status = "ok" /\ previous_file.status = "ok"
       THEN /\ current_month_data' = current_file.sheet
            /\ previous_month_data' = previous_file.sheet
            /\ pc' = "loaded"
       ELSE /\ pc' = "raised"
            /\ UNCHANGED dataVars
    /\ UNCHANGED <<inputVars, classVars, mode, selected_dimensions,
                   binVars, aggVars, merged_table, final_result, formatted_df>>

\* Step 4 of run (v1, v2): classify the columns of the current sheet; v1
\* stops when a role is missing.
AnalyzeColumns ==
    /\ pc = "loaded"
    /\ script \in {"v1", "v2"}
    /\ LET r == analyze_columns(current_month_data)
       IN /\ dimension_columns' = r[1]
          /\ metric_columns' = r[2]
          /\ pc' = IF script = "v1" /\ (r[1] = <<>> \/ r[2] = <<>>)
                   THEN "failed" ELSE "classified"
    /\ log' = Append(log, "analyze_columns")
    /\ UNCHANGED <<inputVars, dataVars, mode, selected_dimensions, binVars, aggVars,
                   merged_table, final_result, formatted_df>>

\* IdentifyColumnTypes without the check for an empty metric list.
IdentifyColumnTypes_unchecked ==
    /\ pc = "loaded"
    /\ script = "auto"
    /\ LET r == identify_column_types(current_month_data)
       IN /\ dimension_columns' = r[1]
          /\ metric_columns' = r[2]
          /\ pc' = "classified"
    /\ log' = Append(log, "identify_column_types")
    /\ UNCHANGED <<inputVars, dataVars, mode, selected_dimensions, binVars, aggVars,
                   merged_table, final_result, formatted_df>>

\* Step 2 of run_analysis: classify; no metric column raises ValueError.
IdentifyColumnTypes ==
    /\ pc = "loaded"
    /\ script = "auto"
    /\ LET r == identify_column_types(current_month_data)
       IN /\ dimension_columns' = r[1]
          /\ metric_columns' = r[2]
          /\ pc' = IF r[2] = <<>> THEN "raised" ELSE "classified"
    /\ log' = Append(log, "identify_column_types")
    /\ UNCHANGED <<inputVars, dataVars, mode, selected_dimensions, binVars, aggVars,
                   merged_table, final_result, formatted_df>>

\* get_analysis_mode_choice: 1 (dimension) or 2 (interval)
ChooseMode ==
    /\ pc = "classified"
    /\ script = "v2"
    /\ \E m \in {"dimension", "interval"} : mode' = m
    /\ pc' = "mode_chosen"
    /\ log' = Append(log, "get_analysis_mode_choice")
    /\ UNCHANGED <<inputVars, dataVars, classVars, selected_dimensions, binVars, aggVars,
                   merged_table, final_result, formatted_df>>

\* get_user_dimension_selection, behind the role checks of
\* run_dimension_summary in v2: the user picks some of the dimensions.
SelectDimensions ==
    /\ <<script, pc, mode>> \in
           {<<"v1", "classified", "none">>, <<"v2", "mode_chosen", "dimension">>}
    /\ IF dimension_columns = <<>> \/ metric_columns = <<>>
       THEN /\ pc' = "failed"
            /\ UNCHANGED selected_dimensions
       ELSE /\ \E P \in SUBSET (DOMAIN dimension_columns) \ {{}} :
                   selected_dimensions' = SubSeqAt(dimension_columns, P, 1)
            /\ pc' = "selected"
    /\ log' = Append(log, IF script = "v2" THEN "run_dimension_summary"
                           ELSE "get_user_dimension_selection")
    /\ UNCHANGED <<inputVars, dataVars, classVars, mode, binVars, aggVars, merged_table,
                   final_result, formatted_df>>

\* get_user_metric_selection, behind the role check of
\* run_metric_interval_summary.
SelectMetric ==
    /\ script = "v2" /\ pc = "mode_chosen" /\ mode = "interval"
    /\ IF metric_columns = <<>>
       THEN /\ pc' = "failed"
            /\ UNCHANGED selected_metric
       ELSE /\ \E i \in DOMAIN metric_columns :
                   selected_metric' = metric_columns[i]
            /\ pc' = "metric_selected"
    /\ log' = Append(log, "run_metric_interval_summary")
    /\ UNCHANGED <<inputVars, dataVars, classVars, mode, selected_dimensions, typed_cutpoints, cutpoints,
                   labels, current_binned, previous_binned, aggVars,
                   merged_table, final_result, formatted_df>>

\* analyze_metric_range, then get_interval_cutpoints: the prompt repeats
\* until the typed numbers are accepted.
GetIntervalCutpoints ==
    /\ pc = "metric_selected"
    /\ \E typed \in CutInputs :
          /\ CutpointsAccepted(Sorted(typed), analyze_metric_range(selected_metric))
          /\ typed_cutpoints' = typed
          /\ cutpoints' = Sorted(typed)
    /\ pc' = "cutpoints_set"
    /\ log' = Append(log, "get_interval_cutpoints")
    /\ UNCHANGED <<inputVars, dataVars, classVars, mode, selected_dimensions,
                   selected_metric, labels, current_binned, previous_binned,
                   aggVars, merged_table, final_result, formatted_df>>

CreateIntervalLabels ==
    /\ pc = "cutpoints_set"
    /\ labels' = create_interval_labels(cutpoints)
    /\ pc' = "labelled"
    /\ log' = Append(log, "create_interval_labels")
    /\ UNCHANGED <<inputVars, dataVars, classVars, mode, selected_dimensions,
                   selected_metric, typed_cutpoints, cutpoints, current_binned, previous_binned,
                   aggVars, merged_table, final_result, formatted_df>>

\* apply_interval_binning on the current sheet; a ValueError of pd.cut ends
\* the run in run's except clause.
BinCurrent ==
    /\ pc = "labelled"
    /\ IF CutRaises(cutpoints)
       THEN /\ pc' = "failed"
            /\ UNCHANGED current_binned
       ELSE /\ current_binned' =
                   apply_interval_binning(current_month_data, selected_metric,
                                          cutpoints, labels)
            /\ pc' = "cur_binned"
    /\ log' = Append(log, "apply_interval_binning")
    /\ UNCHANGED <<inputVars, dataVars, classVars, mode, selected_dimensions,
                   selected_metric, typed_cutpoints, cutpoints, labels, previous_binned,
                   aggVars, merged_table, final_result, formatted_df>>

\* apply_interval_binning on the prior sheet; the KeyError of a sheet that
\* lacks the metric ends the run in run's except clause.
BinPrevious ==
    /\ pc = "cur_binned"
    /\ IF selected_metric \notin Range(previous_month_data.columns)
       THEN /\ pc' = "failed"
            /\ UNCHANGED previous_binned
       ELSE /\ previous_binned' =
                   apply_interval_binning(previous_month_data, selected_metric,
                                          cutpoints, labels)
            /\ pc' = "prev_binned"
    /\ log' = Append(log, "apply_interval_binning")
    /\ UNCHANGED <<inputVars, dataVars, classVars, mode, selected_dimensions,
                   selected_metric, typed_cutpoints, cutpoints, labels, current_binned,
                   aggVars, merged_table, final_result, formatted_df>>

\* other_metrics of run_metric_interval_summary
other_metrics ==
    LET Other(c) == c # selected_metric IN SelectSeq(metric_columns, Other)

\* The grouping keys and metrics the run hands to the aggregator and merger.
GroupCols == IF mode = "interval" THEN <<"interval">> ELSE selected_dimensions
GroupMetrics == IF mode = "interval" THEN other_metrics ELSE metric_columns

\* group_and_summarize as the running script defines it
Summarize(df) ==
    IF script = "v1"
    THEN group_and_summarize(df, GroupCols, GroupMetrics)
    ELSE group_and_summarize_v2(df, GroupCols, GroupMetrics)

GroupCurrent ==
    /\ script \in {"v1", "v2"}
    /\ pc \in {"selected", "prev_binned"}
    /\ current_summary' =
           Summarize(IF mode = "interval" THEN current_binned
                     ELSE current_month_data)
    /\ pc' = "cur_grouped"
    /\ log' = Append(log, "group_and_summarize")
    /\ UNCHANGED <<inputVars, dataVars, classVars, mode, selected_dimensions, binVars,
                   previous_summary, merged_table, final_result, formatted_df>>

GroupPrevious ==
    /\ script \in {"v1", "v2"}
    /\ pc = "cur_grouped"
    /\ previous_summary' =
           Summarize(IF mode = "interval" THEN previous_binned
                     ELSE previous_month_data)
    /\ pc' = "prev_grouped"
    /\ log' = Append(log, "group_and_summarize")
    /\ UNCHANGED <<inputVars, dataVars, classVars, mode, selected_dimensions, binVars,
                   current_summary, merged_table, final_result, formatted_df>>

\* The empty-summary check of the run, then calculate_comparison; v2
\* reports an empty comparison as a failed analysis.
CalculateComparison ==
    /\ script \in {"v1", "v2"}
    /\ pc = "prev_grouped"
    /\ IF IsEmptyFrame(current_summary) \/ IsEmptyFrame(previous_summary)
       THEN /\ pc' = "failed"
            /\ UNCHANGED final_result
       ELSE LET r == IF script = "v1"
                     THEN calculate_comparison(current_summary, previous_summary,
                                               GroupCols, GroupMetrics)
                     ELSE calculate_comparison_v2(current_summary,
                                                  previous_summary,
                                                  GroupCols, GroupMetrics)
            IN /\ final_result' = r
               /\ pc' = IF script = "v2" /\ IsEmptyFrame(r)
                        THEN "failed" ELSE "compared"
    /\ log' = Append(log, IF IsEmptyFrame(current_summary) \/ IsEmptyFrame(previous_summary)
                           THEN "summary_failed" ELSE "calculate_comparison")
    /\ UNCHANGED <<inputVars, dataVars, classVars, mode, selected_dimensions, binVars,
                   aggVars, merged_table, formatted_df>>

\* Step 3 of run_analysis, current sheet.
AggregateCurrent ==
    /\ script = "auto"
    /\ pc = "classified"
    /\ current_summary' =
           aggregate_data(current_month_data, dimension_columns, metric_columns)
    /\ pc' = "cur_grouped"
    /\ log' = Append(log, "aggregate_data")
    /\ UNCHANGED <<inputVars, dataVars, classVars, mode, selected_dimensions, binVars,
                   previous_summary, merged_table, final_result, formatted_df>>

\* Step 3 of run_analysis, prior sheet.
AggregatePrevious ==
    /\ script = "auto"
    /\ pc = "cur_grouped"
    /\ previous_summary' =
           aggregate_data(previous_month_data, dimension_columns, metric_columns)
    /\ pc' = "prev_grouped"
    /\ log' = Append(log, "aggregate_data")
    /\ UNCHANGED <<inputVars, dataVars, classVars, mode, selected_dimensions, binVars,
                   current_summary, merged_table, final_result, formatted_df>>

\* Step 4 of run_analysis.
MergeMonthlyData ==
    /\ script = "auto"
    /\ pc = "prev_grouped"
    /\ merged_table' =
           merge_monthly_data(current_summary, previous_summary,
                              dimension_columns)
    \* without a dimension the two aggregates themselves get the suffixed
    \* labels (current_agg.columns = ..., previous_agg.columns = ...)
    /\ IF dimension_columns # <<>>
       THEN UNCHANGED aggVars
       ELSE /\ current_summary' =
                   [current_summary EXCEPT
                       !.columns = renamed_columns(current_summary, TRUE)]
            /\ previous_summary' =
                   [previous_summary EXCEPT
                       !.columns = renamed_columns(previous_summary, FALSE)]
    /\ pc' = "merged"
    /\ log' = Append(log, "merge_monthly_data")
    /\ UNCHANGED <<inputVars, dataVars, classVars, mode, selected_dimensions, binVars,
                   final_result, formatted_df>>

\* Step 5 of run_analysis.
CalculateGrowthRate ==
    /\ script = "auto"
    /\ pc = "merged"
    /\ final_result' = calculate_growth_rate(merged_table, metric_columns)
    /\ pc' = "growth_done"
    /\ log' = Append(log, "calculate_growth_rate")
    /\ UNCHANGED <<inputVars, dataVars, classVars, mode, selected_dimensions, binVars,
                   aggVars, merged_table, formatted_df>>

\* Step 6 of run_analysis.
FormatResults ==
    /\ script = "auto"
    /\ pc = "growth_done"
    /\ formatted_df' = format_results(final_result, metric_columns)
    /\ pc' = "formatted"
    /\ log' = Append(log, "format_results")
    /\ UNCHANGED <<inputVars, dataVars, classVars, mode, selected_dimensions, binVars,
                   aggVars, merged_table, final_result>>

\* Step 7 of run (v1, v2): format_and_display_results.
DisplayResults ==
    /\ script \in {"v1", "v2"}
    /\ pc = "compared"
    /\ pc' = "displayed"
    /\ log' = Append(log, "format_and_display_results")
    /\ UNCHANGED <<inputVars, dataVars, classVars, mode, selected_dimensions,
                   binVars, aggVars, merged_table, final_result, formatted_df>>

\* Step 8 of run (v1, v2): the save prompt; on 'y' to_excel writes the
\* result, and a failure to write is printed.
SaveChoice ==
    /\ script \in {"v1", "v2"}
    /\ pc = "displayed"
    /\ \E outcome \in {"saved", "save_failed", "save_skipped"} :
          log' = Append(log, outcome)
    /\ pc' = "done"
    /\ UNCHANGED <<inputVars, dataVars, classVars, mode, selected_dimensions,
                   binVars, aggVars, merged_table, final_result, formatted_df>>

\* SaveReport with a failed write tried again.
SaveReport_retrying ==
    /\ script = "auto"
    /\ pc = "formatted"
    /\ log' = Append(log, "save_report")
    /\ \E written \in BOOLEAN : pc' = IF written THEN "saved" ELSE "formatted"
    /\ UNCHANGED <<inputVars, dataVars, classVars, mode, selected_dimensions,
                   binVars, aggVars, merged_table, final_result, formatted_df>>

\* Step 7 of run_analysis: save_report re-raises what the writer raises.
SaveReport ==
    /\ script = "auto"
    /\ pc = "formatted"
    /\ log' = Append(log, "save_report")
    /\ \E written \in BOOLEAN : pc' = IF written THEN "saved" ELSE "raised"
    /\ UNCHANGED <<inputVars, dataVars, classVars, mode, selected_dimensions,
                   binVars, aggVars, merged_table, final_result, formatted_df>>

\* Step 8 of run_analysis.
PrintAnalysisSummary ==
    /\ script = "auto"
    /\ pc = "saved"
    /\ log' = Append(log, "print_analysis_summary")
    /\ pc' = "done"
    /\ UNCHANGED <<inputVars, dataVars, classVars, mode, selected_dimensions,
                   binVars, aggVars, merged_table, final_result, formatted_df>>

Next ==
    \/ EnterDate
    \/ CheckFiles
    \/ LoadExcelData
    \/ LoadData
    \/ AnalyzeColumns
    \/ IdentifyColumnTypes
    \/ ChooseMode
    \/ SelectDimensions
    \/ SelectMetric
    \/ GetIntervalCutpoints
    \/ CreateIntervalLabels
    \/ BinCurrent
    \/ BinPrevious
    \/ GroupCurrent
    \/ GroupPrevious
    \/ CalculateComparison
    \/ AggregateCurrent
    \/ AggregatePrevious
    \/ MergeMonthlyData
    \/ CalculateGrowthRate
    \/ FormatResults
    \/ DisplayResults
    \/ SaveChoice
    \/ SaveReport
    \/ PrintAnalysisSummary

Spec == Init /\ [][Next]_vars

(***************************************************************************)
(* The same runs on irregular period files.                                *)
(***************************************************************************)
IrregularInit ==
    \E f \in IrregularFilePairs, sc \in Scripts :
        /\ sc \in ScriptsFor(f.v)
        /\ RunStart(sc, f.files[1], f.files[2])

IrregularSpec == IrregularInit /\ [][Next]_vars

(***************************************************************************)
(* format_results on its own: it is handed a growth table whose every      *)
(* growth value is drawn from the floats a growth column can hold.         *)
(***************************************************************************)
\* A growth column's cell with the two period totals beside it: the finite
\* ratio n / d (prior d, current n + d), the two infinities and NaN.
GrowthDenominators == {1, 3, 8, -3}
GrowthCases ==
    {[prev |-> Num(d), cur |-> Num(n + d), growth |-> Fin(n, d)] :
         n \in (-MaxDelta)..MaxDelta, d \in GrowthDenominators}
    \cup {[prev |-> Num(0), cur |-> Num(1), growth |-> PosInf],
          [prev |-> Num(0), cur |-> Num(-1), growth |-> NegInf],
          [prev |-> NaN, cur |-> NaN, growth |-> NanGrowth]}

FormatMetrics == <<"loan_amount", "sales">>

\* The one-row growth table with case a for the first metric and b for the
\* second.
GrowthTable(a, b) ==
    LET Pick(m) == IF m = FormatMetrics[1] THEN a ELSE b
    IN [keys |-> <<"region">>, metrics |-> FormatMetrics,
        columns |-> <<"region">>
            \o [i \in DOMAIN FormatMetrics |-> current_col(FormatMetrics[i])]
            \o [i \in DOMAIN FormatMetrics |-> previous_col(FormatMetrics[i])]
            \o [i \in DOMAIN FormatMetrics |-> growth_rate_col(FormatMetrics[i])],
        rows |-> SetToBag({[key |-> <<Str("East")>>,
                            prev |-> [m \in Range(FormatMetrics) |-> Pick(m).prev],
                            cur |-> [m \in Range(FormatMetrics) |-> Pick(m).cur],
                            growth |-> [m \in Range(FormatMetrics) |->
                                           Pick(m).growth]]})]

FormatInit ==
    \E a \in GrowthCases, b \in GrowthCases :
        /\ script = "auto"
        /\ exclude_columns = <<>>
        /\ current_file = File("ok", NoSheet)
        /\ previous_file = File("ok", NoSheet)
        /\ pc = "growth_done"
        /\ log = <<"load_data", "identify_column_types", "aggregate_data",
                   "aggregate_data", "merge_monthly_data",
                   "calculate_growth_rate">>
        /\ current_month_data = NoSheet
        /\ previous_month_data = NoSheet
        /\ groupby_observed = TRUE
        /\ dimension_columns = <<"region">>
        /\ metric_columns = FormatMetrics
        /\ mode = "none"
        /\ selected_dimensions = <<>>
        /\ selected_metric = ""
        /\ typed_cutpoints = <<>>
        /\ cutpoints = <<>>
        /\ labels = <<>>
        /\ current_binned = NoSheet
        /\ previous_binned = NoSheet
        /\ current_summary = EmptyDataFrame
        /\ previous_summary = EmptyDataFrame
        /\ merged_table = EmptyDataFrame
        /\ final_result = GrowthTable(a, b)
        /\ formatted_df = EmptyDataFrame

FormatNext == FormatResults

FormatSpec == FormatInit /\ [][FormatNext]_vars

(***************************************************************************)
(* Properties.                                                             *)
(***************************************************************************)
ResultRows == BagToSet(final_result.rows)
ResultMetrics == Range(final_result.metrics)

\* The total of metric m for group k in an aggregate, 0 when the aggregate
\* has no row for k.
ZeroFilled(f, k, m) ==
    IF k \in KeysOf(f)
    THEN (CHOOSE r \in BagToSet(f.rows) : r.key = k).tot[m].n
    ELSE 0

PriorTotal(r, m) == ZeroFilled(previous_summary, r.key, m)
CurrentTotal(r, m) == ZeroFilled(current_summary, r.key, m)

\* C1: in the result of calculate_comparison (v1 and v2), a metric whose
\* zero-filled prior total P is not 0 has the growth round(100*(C-P)/P, 2):
\* a finite number of hundredths h with |h/100 - 100*(C-P)/P| <= 0.005.
C1_GrowthIsRoundedPercentage ==
    pc = "compared" =>
        \A r \in ResultRows, m \in ResultMetrics :
            LET P == PriorTotal(r, m)
                C == CurrentTotal(r, m)
                g == r.growth[m]
            IN P # 0 =>
                /\ g.k = "fin"
                /\ g.den = 100
                /\ 2 * Abs(g.num * P - 10000 * (C - P)) <= Abs(P)

\* A comparison holding a growth that needed rounding (100*(C-P)/P is no
\* whole number of hundredths).
C1_Witness ==
    /\ pc = "compared"
    /\ \E r \in ResultRows, m \in ResultMetrics :
          /\ PriorTotal(r, m) # 0
          /\ (10000 * (CurrentTotal(r, m) - PriorTotal(r, m)))
                 % Abs(PriorTotal(r, m)) # 0

\* C2: in the result of calculate_comparison (v1 and v2), a metric whose
\* prior total is 0 has growth +infinity when the current total is > 0,
\* exactly 0 when it is 0, and -infinity when it is < 0.
C2_ZeroPriorGivesInfinityMarkers ==
    pc = "compared" =>
        \A r \in ResultRows, m \in ResultMetrics :
            LET C == CurrentTotal(r, m)
                g == r.growth[m]
            IN PriorTotal(r, m) = 0 =>
                /\ C > 0 => g = PosInf
                /\ C = 0 => (g.k = "fin" /\ g.num = 0)
                /\ C < 0 => g = NegInf

\* C3: in AutoMonthlyAnalyzer.calculate_growth_rate, a metric whose
\* prior-month value is 0 has growth +infinity when the current-month value
\* is > 0 and exactly 0 when the current-month value is 0.
C3_AutoZeroPriorPositiveOrZero ==
    pc = "growth_done" =>
        \A r \in ResultRows, m \in ResultMetrics :
            r.prev[m].n = 0 =>
                /\ r.cur[m].n > 0 => r.growth[m] = PosInf
                /\ r.cur[m].n = 0 =>
                       (r.growth[m].k = "fin" /\ r.growth[m].num = 0)

\* A growth table with a zero-to-positive and a zero-to-zero metric.
C3_Witness ==
    /\ pc = "growth_done"
    /\ \E r \in ResultRows, m \in ResultMetrics :
          r.prev[m].n = 0 /\ r.cur[m].n > 0
    /\ \E r \in ResultRows, m \in ResultMetrics :
          r.prev[m].n = 0 /\ r.cur[m].n = 0

\* C4: in AutoMonthlyAnalyzer.calculate_growth_rate, a metric whose
\* prior-month value is 0 and whose current-month value is < 0 has growth
\* -infinity (never +infinity).
C4_AutoZeroPriorNegativeIsNegInf ==
    pc = "growth_done" =>
        \A r \in ResultRows, m \in ResultMetrics :
            (r.prev[m].n = 0 /\ r.cur[m].n < 0) => r.growth[m] = NegInf

\* C5: in the result of calculate_comparison the change column is the
\* zero-filled current total minus the zero-filled prior total, also for
\* groups only one period has.
C5_ChangeIsCurrentMinusPrior ==
    pc = "compared" =>
        \A r \in ResultRows, m \in ResultMetrics :
            r.change[m] = Num(CurrentTotal(r, m) - PriorTotal(r, m))

\* A comparison with a group only the current period has, and a non-zero
\* change for it.
C5_Witness ==
    /\ pc = "compared"
    /\ \E r \in ResultRows, m \in ResultMetrics :
          /\ r.key \notin KeysOf(previous_summary)
          /\ r.change[m].n # 0

\* The merged frame of the run: the comparison (v1, v2) or the wide table
\* of merge_monthly_data (auto).
MergedFrame == IF pc = "merged" THEN merged_table ELSE final_result

UniqueKeys(f) == \A k \in KeysOf(f) : RowsWithKey(f, k) = 1

\* The key columns the run merges on.
MergeKeys == IF script = "auto" THEN dimension_columns ELSE GroupCols

\* C6: for two aggregates with unique group keys, the merged result
\* (calculate_comparison; merge_monthly_data with dimensions) has exactly
\* one row for each key of the union of the two key sets, and no other row.
C6_MergedKeysAreTheUnion ==
    (/\ pc \in {"compared", "merged"}
     /\ MergeKeys # <<>>
     /\ UniqueKeys(current_summary)
     /\ UniqueKeys(previous_summary)) =>
        /\ KeysOf(MergedFrame) = KeysOf(current_summary) \cup KeysOf(previous_summary)
        /\ UniqueKeys(MergedFrame)

\* A merge of two aggregates that each hold a group the other lacks.
C6_Witness ==
    /\ pc \in {"compared", "merged"}
    /\ KeysOf(current_summary) \ KeysOf(previous_summary) # {}
    /\ KeysOf(previous_summary) \ KeysOf(current_summary) # {}

\* The growth value that stands for -100 percent: in hundredths of a
\* percent (v1, v2) or as a ratio (auto).
IsMinusHundredPercent(g) == g.k = "fin" /\ g.num * 100 = -10000 * g.den
IsMinusOneRatio(g) == g.k = "fin" /\ g.num = -g.den

\* C7: a group only one period has holds total 0 (not NaN) for every metric
\* on the absent side, and delta and growth are computed from that 0: a
\* group only the prior period has, with prior total P # 0, gets current 0,
\* delta -P and growth -100 percent.
C7_AbsentSideIsZeroFilled ==
    pc \in {"compared", "growth_done"} =>
        \A r \in ResultRows, m \in ResultMetrics :
            /\ r.key \notin KeysOf(current_summary) =>
                  /\ r.cur[m] = Num(0)
                  /\ r.prev[m] = Num(PriorTotal(r, m))
                  /\ pc = "compared" => r.change[m] = Num(-PriorTotal(r, m))
                  /\ (pc = "compared" /\ PriorTotal(r, m) # 0) =>
                         IsMinusHundredPercent(r.growth[m])
                  /\ (pc = "growth_done" /\ PriorTotal(r, m) # 0) =>
                         IsMinusOneRatio(r.growth[m])
            /\ r.key \notin KeysOf(previous_summary) =>
                  /\ r.prev[m] = Num(0)
                  /\ r.cur[m] = Num(CurrentTotal(r, m))
                  /\ pc = "compared" => r.change[m] = Num(CurrentTotal(r, m))

\* A comparison with a group only the prior period has, its prior total
\* not 0.
C7_Witness ==
    /\ pc = "compared"
    /\ \E r \in ResultRows, m \in ResultMetrics :
          /\ r.key \notin KeysOf(current_summary)
          /\ PriorTotal(r, m) # 0

\* C8: whatever the two period sheets, also when one period contributes no
\* row, the dimension-mode and interval-mode pipelines end with a comparison
\* that contains every group of either period.
C8_NoGroupDroppedByEmptyPeriod ==
    (script \in {"v1", "v2"} /\ pc \in {"compared", "failed"}) =>
        (KeysOf(current_summary) \cup KeysOf(previous_summary))
            \subseteq KeysOf(final_result)

\* C9: merging an aggregate with itself through calculate_comparison gives
\* delta 0 and growth 0 for every group and metric, the total zero or not.
C9_SelfMergeIsAllZero ==
    (pc = "compared" /\ current_summary = previous_summary) =>
        \A r \in ResultRows, m \in ResultMetrics :
            /\ r.change[m] = Num(0)
            /\ r.growth[m].k = "fin"
            /\ r.growth[m].num = 0

\* A self-merge with a zero total and a non-zero total.
C9_Witness ==
    /\ pc = "compared"
    /\ current_summary = previous_summary
    /\ \E r \in ResultRows, m \in ResultMetrics : r.prev[m].n = 0
    /\ \E r \in ResultRows, m \in ResultMetrics : r.prev[m].n # 0

\* The rows of the two binned sheets.
BinnedRows == Range(current_binned.rows) \cup Range(previous_binned.rows)

\* The value v lies in the j-th interval [lower, upper) of the cutpoints:
\* the first has no lower bound, the last no upper bound.
InInterval(v, j) ==
    /\ j = 1 \/ cutpoints[j - 1] <= v
    /\ j = Len(cutpoints) + 1 \/ v < cutpoints[j]

\* C10: for a non-empty strictly increasing cutpoint list, every finite
\* value gets exactly one of the labels of create_interval_labels (the one
\* label whose interval holds it), and the labels follow the ascending
\* cutpoints: a larger value never gets an earlier label.
C10_EveryValueGetsExactlyOneLabel ==
    (/\ pc \in {"cur_binned", "prev_binned"}
     /\ cutpoints # <<>>
     /\ \A i \in 1..(Len(cutpoints) - 1) : cutpoints[i] < cutpoints[i + 1]) =>
        /\ Len(labels) = Len(cutpoints) + 1
        /\ \A i, j \in DOMAIN labels : i # j => labels[i] # labels[j]
        /\ \A r \in BinnedRows :
              IsNum(r[selected_metric]) =>
                  /\ Cardinality({j \in DOMAIN labels :
                                     InInterval(r[selected_metric].n, j)}) = 1
                  /\ \E j \in DOMAIN labels :
                        /\ InInterval(r[selected_metric].n, j)
                        /\ r.interval = Str(labels[j])
        /\ \A r1, r2 \in BinnedRows :
              (/\ IsNum(r1[selected_metric]) /\ IsNum(r2[selected_metric])
               /\ r1[selected_metric].n <= r2[selected_metric].n) =>
                  \E i, j \in DOMAIN labels :
                      /\ r1.interval = Str(labels[i])
                      /\ r2.interval = Str(labels[j])
                      /\ i <= j

\* Both sheets binned with two cutpoints, with a value below the first
\* cutpoint, one from the first cutpoint up to the second and one from the
\* last cutpoint on.
C10_Witness ==
    /\ pc = "prev_binned"
    /\ Len(cutpoints) = 2
    /\ \E r \in BinnedRows : r[selected_metric].n < cutpoints[1]
    /\ \E r \in BinnedRows :
          /\ cutpoints[1] <= r[selected_metric].n
          /\ r[selected_metric].n < cutpoints[2]
    /\ \E r \in BinnedRows : cutpoints[2] <= r[selected_metric].n

\* C11: with two or more strictly increasing cutpoints, a value equal to
\* the first cutpoint gets the first label (<=c1) and a value equal to the
\* last cutpoint cN gets the label of the interval c(N-1)-cN.
C11_CutpointValueGetsLowerLabel ==
    (/\ pc \in {"cur_binned", "prev_binned"}
     /\ Len(cutpoints) >= 2
     /\ \A i \in 1..(Len(cutpoints) - 1) : cutpoints[i] < cutpoints[i + 1]) =>
        \A r \in BinnedRows :
            /\ (IsNum(r[selected_metric])
                    /\ r[selected_metric].n = cutpoints[1]) =>
                  r.interval = Str(labels[1])
            /\ (IsNum(r[selected_metric])
                    /\ r[selected_metric].n = cutpoints[Len(cutpoints)]) =>
                  r.interval = Str(labels[Len(cutpoints)])

\* The place of a column in the header of the sheets.
ColumnPos(c) == CHOOSE i \in DOMAIN Columns : Columns[i] = c

\* q lists columns of the sheet, each once, in the order of the header.
InColumnOrder(q) ==
    /\ \A i \in DOMAIN q : q[i] \in Range(Columns)
    /\ \A i, j \in DOMAIN q : i < j => ColumnPos(q[i]) < ColumnPos(q[j])

\* C12: the dimension list and the metric list the classifier returns
\* (analyze_columns, identify_column_types) share no column, hold no column
\* twice, and each keeps the order of the sheet's columns.
C12_ClassifierListsDisjointAndOrdered ==
    pc # "loaded" =>
        /\ Range(dimension_columns) \cap Range(metric_columns) = {}
        /\ InColumnOrder(dimension_columns)
        /\ InColumnOrder(metric_columns)

\* A classification with a dimension and several metrics.
C12_Witness ==
    /\ pc = "classified"
    /\ Len(dimension_columns) >= 1
    /\ Len(metric_columns) >= 2

\* The frames the run hands to the aggregator.
CurrentInput == IF mode = "interval" THEN current_binned ELSE current_month_data
PreviousInput == IF mode = "interval" THEN previous_binned ELSE previous_month_data

\* The grouping-key combinations that occur in a row of df.
ObservedKeys(df) == {KeyOf(df.rows[i], MergeKeys) : i \in DOMAIN df.rows}

\* The sum of metric m over the rows of df with grouping key k.
SumOver(df, k, m) ==
    SetSum(DOMAIN df.rows,
           [i \in DOMAIN df.rows |->
               IF KeyOf(df.rows[i], MergeKeys) = k /\ IsNum(df.rows[i][m])
               THEN df.rows[i][m].n ELSE 0])

\* agg has one row for each key combination observed in df, no other row,
\* and every metric is the sum over the rows of df with that combination.
IsSparseAggregateOf(agg, df) ==
    /\ KeysOf(agg) = ObservedKeys(df)
    /\ UniqueKeys(agg)
    /\ \A r \in BagToSet(agg.rows), m \in Range(agg.metrics) :
          r.tot[m] = Num(SumOver(df, r.key, m))

\* C13: the aggregator (group_and_summarize, aggregate_data) returns exactly
\* one row per grouping-key combination that occurs in the data, each metric
\* summed over the rows with that combination, and no row for a combination
\* that occurs in no row; in interval mode a label no row falls into gets
\* no row.
C13_AggregateIsSparse ==
    (pc = "prev_grouped" /\ MergeKeys # <<>>) =>
        /\ IsSparseAggregateOf(current_summary, CurrentInput)
        /\ IsSparseAggregateOf(previous_summary, PreviousInput)

\* No aggregation, binning, merge or growth-rate step has run.
\* The classifier of the running script has returned.
ClassifierRan ==
    \E i \in DOMAIN log : log[i] \in {"analyze_columns", "identify_column_types"}

NoAnalysisStepRan ==
    /\ current_binned = NoSheet
    /\ previous_binned = NoSheet
    /\ current_summary = EmptyDataFrame
    /\ previous_summary = EmptyDataFrame
    /\ merged_table = EmptyDataFrame
    /\ final_result = EmptyDataFrame
    /\ formatted_df = EmptyDataFrame

\* With an empty metric list the run has failed, or (v2) still stands before
\* the mode's check of the lists; no analysis step has run.
EmptyMetricsStopRun ==
    (ClassifierRan /\ metric_columns = <<>>) =>
        /\ NoAnalysisStepRan
        /\ script = "v1" => pc = "failed"
        /\ script = "auto" => pc = "raised"
        /\ script = "v2" => pc \in {"classified", "mode_chosen", "failed"}

\* In v2 the mode that was chosen ends the run at its check of the lists.
EmptyMetricsFailAtModeCheck ==
    (script = "v2" /\ pc = "mode_chosen" /\ metric_columns = <<>>) =>
        pc' = "failed"

\* C14: in every run driver, when the classifier returns an empty metric
\* list the run ends in failure before any aggregation, binning, merge or
\* growth-rate step is executed.
C14_EmptyMetricListFailsFast ==
    /\ []EmptyMetricsStopRun
    /\ [][EmptyMetricsFailAtModeCheck]_vars

\* The interval mode of v2 has ended a run whose metric list is empty.
C14_Witness ==
    /\ script = "v2"
    /\ mode = "interval"
    /\ metric_columns = <<>>
    /\ pc = "failed"

\* C15: when a step of a run fails, the caller-facing entry point returns a
\* failure result and lets no exception through to the caller: no run ends
\* with an exception raised out of run_analysis.
C15_NoExceptionReachesCaller ==
    pc # "raised"

\* The four result columns of the j-th metric start after the keys and the
\* columns of the metrics before it.
MetricColumnBase(j) == Len(GroupCols) + 4 * (j - 1)

FormattedRows == BagToSet(formatted_df.rows)

DigitChars == {"0", "1", "2", "3", "4", "5", "6", "7", "8", "9"}
IsDigit(c) == c \in DigitChars
DigitValue(c) == CHOOSE d \in 0..9 : ToString(d) = c

\* The number a sequence of digits writes.
RECURSIVE NumberOf(_)
NumberOf(q) ==
    IF q = <<>> THEN 0
    ELSE 10 * NumberOf(SubSeq(q, 1, Len(q) - 1)) + DigitValue(q[Len(q)])

\* t reads [-]digits.dd% : a percentage with exactly two decimals.
IsTwoDecimalPercent(t) ==
    /\ Len(t) >= 5
    /\ t[Len(t)] = "%"
    /\ IsDigit(t[Len(t) - 1])
    /\ IsDigit(t[Len(t) - 2])
    /\ t[Len(t) - 3] = "."
    /\ LET first == IF t[1] = "-" THEN 2 ELSE 1
       IN /\ first <= Len(t) - 4
          /\ \A i \in first..(Len(t) - 4) : IsDigit(t[i])

\* The hundredths of a percent that a two-decimal percentage text writes.
HundredthsOf(t) ==
    LET n == NumberOf(SelectSeq(t, IsDigit))
    IN IF t[1] = "-" THEN -n ELSE n

\* C17: format_results renders a growth of positive infinity as the infinity
\* sign, negative infinity as the different text minus-infinity-sign, and a
\* finite growth as a percentage with exactly two decimals (the growth
\* times 100, rounded); an infinite growth is never written with digits.
C17_FormatResultsTokens ==
    pc = "formatted" =>
        \A r \in FormattedRows, m \in Range(formatted_df.metrics) :
            LET g == r.growth[m]
                t == r.pct[m]
            IN /\ g.k = "inf" => t = InfinitySign
               /\ g.k = "ninf" => (t = <<"-">> \o InfinitySign /\ t # InfinitySign)
               /\ g.k \in {"inf", "ninf"} => \A i \in DOMAIN t : ~IsDigit(t[i])
               /\ g.k = "fin" =>
                     /\ IsTwoDecimalPercent(t)
                     /\ 2 * Abs(HundredthsOf(t) * g.den - 10000 * g.num)
                            <= Abs(g.den)

\* A formatted table with a positive infinity beside a negative infinity.
C17_Witness ==
    /\ pc = "formatted"
    /\ \E r \in FormattedRows :
          /\ r.growth[FormatMetrics[1]] = PosInf
          /\ r.growth[FormatMetrics[2]] = NegInf
          /\ r.pct[FormatMetrics[1]] # r.pct[FormatMetrics[2]]

\* The labels the specification writes for a cutpoint list: the cutpoints
\* as the user typed them (100, not 100.0).
LabelsAsTyped(cuts) ==
    IF cuts = <<>> THEN <<>>
    ELSE <<"<=" \o ToString(cuts[1])>>
         \o [i \in 1..(Len(cuts) - 1) |->
                ToString(cuts[i]) \o "-" \o ToString(cuts[i + 1])]
         \o <<">" \o ToString(cuts[Len(cuts)])>>

\* C18: for N >= 1 cutpoints create_interval_labels returns exactly the N+1
\* labels <=c1, c1-c2, ..., c(N-1)-cN, >cN in this order (for 100, 500 the
\* labels <=100, 100-500, >500), and no label for an empty list.
C18_LabelsAreTheTypedCutpoints ==
    pc \in {"labelled", "cur_binned", "prev_binned"} =>
        labels = LabelsAsTyped(cutpoints)

\* q is ascending.
IsAscending(q) == \A i \in 1..(Len(q) - 1) : q[i] <= q[i + 1]

\* The number of times x stands in the list q.
Occurrences(q, x) == Cardinality({i \in DOMAIN q : q[i] = x})

\* The typed cutpoints that are <= v.
TypedNotAbove(v) == Cardinality({i \in DOMAIN typed_cutpoints : typed_cutpoints[i] <= v})

\* C19: whatever the order the cutpoints are typed in, labels and bin edges
\* are built from the cutpoints sorted ascending: the list the Binner works
\* on is the typed list in ascending order, the first label names the
\* smallest and the last label the largest typed cutpoint, and a row's label
\* is fixed by how many typed cutpoints are <= its value, as for the sorted
\* list.
C19_BinnerWorksOnSortedCutpoints ==
    pc \in {"labelled", "cur_binned", "prev_binned"} =>
        /\ IsAscending(cutpoints)
        /\ Len(cutpoints) = Len(typed_cutpoints)
        /\ \A x \in Range(typed_cutpoints) \cup Range(cutpoints) :
              Occurrences(cutpoints, x) = Occurrences(typed_cutpoints, x)
        /\ labels[1] = "<=" \o FloatStr(cutpoints[1])
        /\ \A x \in Range(typed_cutpoints) : cutpoints[1] <= x
        /\ labels[Len(labels)] = ">" \o FloatStr(cutpoints[Len(cutpoints)])
        /\ \A x \in Range(typed_cutpoints) : x <= cutpoints[Len(cutpoints)]
        /\ \A r \in BinnedRows :
              IsNum(r[selected_metric]) =>
                  r.interval = Str(labels[1 + TypedNotAbove(r[selected_metric].n)])

\* Both sheets binned after the cutpoints were typed in descending order.
C19_Witness ==
    /\ pc = "prev_binned"
    /\ Len(typed_cutpoints) = 2
    /\ typed_cutpoints[1] > typed_cutpoints[2]
    /\ BinnedRows # {}

\* The names a run excludes: the defaults and the user's.
ExclusionNames == default_exclude \cup Range(exclude_columns)

\* Column c equals, ignoring case, a name of the exclusion configuration.
IsExcludedName(c) == \E x \in ExclusionNames : Lower(c) = Lower(x)

\* C20: a column whose name equals, ignoring case, a default or
\* user-supplied exclusion name is in neither list that
\* identify_column_types returns, whatever its type or content.
C20_ExcludedColumnsAreIgnored ==
    (script = "auto" /\ pc # "loaded") =>
        \A c \in Range(Columns) :
            IsExcludedName(c) =>
                c \notin Range(dimension_columns) \cup Range(metric_columns)

\* A classification that left out the numeric column sales, excluded by the
\* user as SALES, and the column ID, excluded by default as id.
C20_Witness ==
    /\ script = "auto"
    /\ pc = "classified"
    /\ exclude_columns = <<"SALES">>
    /\ dimension_columns = <<"region">>
    /\ metric_columns = <<"loan_amount">>

\* C21: a column without any non-missing value is in neither list the
\* classifier of the running script returned.
C21_BlankColumnIsIgnored ==
    ClassifierRan =>
        \A c \in Range(current_month_data.columns) :
            NonNullCount(current_month_data, c) = 0 =>
                c \notin Range(dimension_columns) \cup Range(metric_columns)

\* C22: analyze_columns probes a column of the generic object type: the
\* column is a metric when every sampled value converts to a number, and a
\* dimension otherwise.
C22_ObjectColumnIsProbed ==
    (ClassifierRan /\ script \in {"v1", "v2"}) =>
        \A c \in Range(current_month_data.columns) :
            (Dtype(current_month_data, c) = "object"
             /\ NonNullCount(current_month_data, c) # 0) =>
                IF SampleConverts(current_month_data, c)
                THEN /\ c \in Range(metric_columns)
                     /\ c \notin Range(dimension_columns)
                ELSE /\ c \in Range(dimension_columns)
                     /\ c \notin Range(metric_columns)

\* Both aggregates of a run of v1 or v2 have been computed.
BothSummarized ==
    /\ script \in {"v1", "v2"}
    /\ Cardinality({i \in DOMAIN log : log[i] = "group_and_summarize"}) = 2

\* What a cell adds to a total when every value that is no number counts 0.
ConvertibleValue(c) ==
    CASE c.t \in {"num", "bool"} -> c.n
      [] c.t = "str" /\ (\E x \in Numerals : ToString(x) = c.s) ->
             (CHOOSE x \in Numerals : ToString(x) = c.s)
      [] OTHER -> 0

\* A cell that holds something which is no number.
Unconvertible(c) == c.t = "str" /\ ~(\E x \in Numerals : ToString(x) = c.s)

\* The rows of df whose grouping key is k.
RowsOfGroup(df, k) == {i \in DOMAIN df.rows : KeyOf(df.rows[i], GroupCols) = k}

\* agg holds a row for every group of df, and every total is the sum of the
\* convertible values of the group.
TotalsSkipUnconvertible(agg, df) ==
    (Range(GroupCols) \cup Range(GroupMetrics) \subseteq Range(df.columns)) =>
        /\ agg.metrics = GroupMetrics
        /\ \A i \in DOMAIN df.rows :
              (\A j \in DOMAIN GroupCols : ~IsNa(df.rows[i][GroupCols[j]])) =>
                  KeyOf(df.rows[i], GroupCols) \in KeysOf(agg)
        /\ \A r \in BagToSet(agg.rows), m \in Range(GroupMetrics) :
              r.tot[m] =
                  Num(SetSum(RowsOfGroup(df, r.key),
                             [i \in DOMAIN df.rows |->
                                 ConvertibleValue(df.rows[i][m])]))

\* C23: in group_and_summarize a metric value that cannot be converted to a
\* number adds 0 to the total of its group and does not abort the
\* aggregation: every group has its row, and its total is the sum of the
\* group's convertible values (0 when none converts).
C23_UnconvertibleValueCountsZero ==
    BothSummarized =>
        /\ TotalsSkipUnconvertible(current_summary, CurrentInput)
        /\ TotalsSkipUnconvertible(previous_summary, PreviousInput)

\* A group of the prior sheet holds an unconvertible sales value beside a
\* convertible one that is not 0, and its total is that value.
C23_Witness ==
    /\ BothSummarized
    /\ "sales" \in Range(GroupMetrics)
    /\ "sales" \in Range(PreviousInput.columns)
    /\ \E r \in BagToSet(previous_summary.rows) :
          /\ \E i \in RowsOfGroup(PreviousInput, r.key) :
                 Unconvertible(PreviousInput.rows[i]["sales"])
          /\ \E i \in RowsOfGroup(PreviousInput, r.key) :
                 ConvertibleValue(PreviousInput.rows[i]["sales"]) # 0
          /\ r.tot["sales"] # Num(0)

\* C24: an aggregator called with an empty metric list returns an empty
\* result; in particular interval mode of v2 produces no comparison when
\* the binning metric is the only metric.
C24_EmptyMetricListGivesNoResult ==
    (script = "v2" /\ mode = "interval" /\ selected_metric # ""
     /\ other_metrics = <<>>) =>
        /\ IsEmptyFrame(current_summary)
        /\ IsEmptyFrame(previous_summary)
        /\ IsEmptyFrame(final_result)
        /\ pc \notin {"compared", "displayed", "done"}

\* The sum of metric m over all rows of the sheet df.
GrandTotal(df, m) ==
    SetSum(DOMAIN df.rows,
           [i \in DOMAIN df.rows |-> ConvertibleValue(df.rows[i][m])])

\* agg is the single row of the grand totals of df.
IsGrandTotalRow(agg, df) ==
    /\ BagCardinality(agg.rows) = 1
    /\ \A r \in BagToSet(agg.rows), m \in Range(metric_columns) :
          r.tot[m] = Num(GrandTotal(df, m))

\* The number of aggregate_data calls the automatic run has finished.
AggregateCalls ==
    Cardinality({i \in DOMAIN log : log[i] = "aggregate_data"})

\* C25: aggregate_data called with an empty dimension list and a non-empty
\* metric list returns exactly one row, holding for every metric its sum
\* over all rows of the dataset, and merge_monthly_data then returns
\* exactly one row holding the grand totals of both periods.
C25_NoDimensionGivesGrandTotals ==
    (script = "auto" /\ dimension_columns = <<>> /\ metric_columns # <<>>) =>
        /\ AggregateCalls >= 1 =>
               IsGrandTotalRow(current_summary, current_month_data)
        /\ AggregateCalls = 2 =>
               IsGrandTotalRow(previous_summary, previous_month_data)
        /\ pc = "merged" =>
               /\ BagCardinality(merged_table.rows) = 1
               /\ \A r \in BagToSet(merged_table.rows),
                     m \in Range(metric_columns) :
                      /\ r.cur[m] = Num(GrandTotal(current_month_data, m))
                      /\ r.prev[m] = Num(GrandTotal(previous_month_data, m))

\* A run without a dimension has merged the grand totals of a current
\* sheet of two rows and of a prior sheet without rows.
C25_Witness ==
    /\ script = "auto"
    /\ dimension_columns = <<>>
    /\ metric_columns # <<>>
    /\ pc = "merged"
    /\ Len(current_month_data.rows) = 2
    /\ previous_month_data.rows = <<>>
    /\ \E r \in BagToSet(merged_table.rows) : r.cur["sales"] # Num(0)

\* The binning-metric value of a sheet row is missing or is no number.
NoBinningValue(row) ==
    IsNa(row[selected_metric]) \/ Unconvertible(row[selected_metric])

\* binned is sheet with its interval column, and no row of sheet without a
\* binning value has a label.
UnbinnableRowsHaveNoLabel(sheet, binned) ==
    ("interval" \in Range(binned.columns)) =>
        /\ Len(binned.rows) = Len(sheet.rows)
        /\ \A i \in DOMAIN sheet.rows :
              NoBinningValue(sheet.rows[i]) =>
                  IsNa(binned.rows[i]["interval"])

\* Every total of agg is the sum over the rows of sheet that have a binning
\* value and the total's label.
UnbinnableRowsAreNotCounted(agg, sheet, binned) ==
    \A r \in BagToSet(agg.rows), m \in Range(agg.metrics) :
        r.tot[m] =
            Num(SetSum({i \in DOMAIN sheet.rows :
                           /\ ~NoBinningValue(sheet.rows[i])
                           /\ binned.rows[i]["interval"] = r.key[1]},
                       [i \in DOMAIN sheet.rows |->
                           ConvertibleValue(sheet.rows[i][m])]))

\* C26: in interval mode a row whose binning-metric value is missing or
\* cannot be converted to a number gets no interval label from
\* apply_interval_binning, and group_and_summarize counts its other metric
\* values in the total of no interval.
C26_UnbinnableRowIsLeftOut ==
    (script = "v2" /\ mode = "interval" /\ selected_metric # "") =>
        /\ UnbinnableRowsHaveNoLabel(current_month_data, current_binned)
        /\ UnbinnableRowsHaveNoLabel(previous_month_data, previous_binned)
        /\ BothSummarized =>
              /\ UnbinnableRowsAreNotCounted(current_summary,
                                             current_month_data, current_binned)
              /\ UnbinnableRowsAreNotCounted(previous_summary,
                                             previous_month_data,
                                             previous_binned)

\* Interval mode has summarised a current sheet with a row whose binning
\* value is missing beside a row that has its label, and a prior sheet with
\* a row whose binning value is missing or no number.
C26_Witness ==
    /\ script = "v2" /\ mode = "interval" /\ selected_metric = "sales"
    /\ BothSummarized
    /\ "loan_amount" \in Range(current_summary.metrics)
    /\ \E i \in DOMAIN current_month_data.rows :
          /\ IsNa(current_month_data.rows[i]["sales"])
          /\ IsNa(current_binned.rows[i]["interval"])
    /\ \E i \in DOMAIN current_month_data.rows :
          ~IsNa(current_binned.rows[i]["interval"])
    /\ \E i \in DOMAIN previous_month_data.rows :
          NoBinningValue(previous_month_data.rows[i])

\* The stages of run_analysis in the order of the source, the summary
\* print behind them.
AutoPipeline ==
    <<"load_data", "identify_column_types", "aggregate_data", "aggregate_data",
      "merge_monthly_data", "calculate_growth_rate", "format_results",
      "save_report", "print_analysis_summary">>

IsPrefix(p, q) == Len(p) <= Len(q) /\ \A i \in DOMAIN p : p[i] = q[i]

\* The stages executed so far are an initial piece of the pipeline.
AutoStagesInOrder == script = "auto" => IsPrefix(log, AutoPipeline)

\* A run that a stage has failed executes nothing more.
AutoStopsAtFailure ==
    (script = "auto" /\ pc = "raised") => (log' = log /\ pc' = pc)

\* C27: run_analysis executes load, classify, aggregate current, aggregate
\* prior, merge, growth rate, format and save in exactly this order, each
\* at most once, and after a failed stage no later stage is executed.
C27_AutoPipelineIsLinear ==
    /\ []AutoStagesInOrder
    /\ [][AutoStopsAtFailure]_vars

\* A complete automatic run, and nothing after its last stage.
C27_Witness ==
    /\ script = "auto"
    /\ pc = "done"
    /\ log = AutoPipeline

\* The step leaves the two loaded sheets as they are.
SheetsKept == UNCHANGED dataVars

\* The operation that runs in the step changes none of the frames it is
\* handed: binning and aggregation get sheets (loaded or binned), the
\* comparison and the merge get the two aggregates, the growth-rate
\* calculation gets the merged table.
InputsKept ==
    /\ pc \in {"labelled", "cur_binned"} => SheetsKept
    /\ pc \in {"selected", "prev_binned", "cur_grouped", "classified"} =>
           /\ SheetsKept
           /\ UNCHANGED <<current_binned, previous_binned>>
    /\ pc = "cur_grouped" => UNCHANGED current_summary
    /\ pc = "prev_grouped" => UNCHANGED <<current_summary, previous_summary>>
    /\ pc = "merged" => UNCHANGED merged_table

\* C28: apply_interval_binning, group_and_summarize, calculate_comparison,
\* merge_monthly_data and calculate_growth_rate leave the dataset or
\* aggregate passed to them as it was (columns, column names and values),
\* in every branch.
C28_OperationsKeepTheirInputs == [][InputsKept]_vars

\* The requested metrics whose column both period datasets hold, in the
\* order of the request.
MetricsOfBothPeriods ==
    LET InBoth(m) == /\ m \in Range(CurrentInput.columns)
                     /\ m \in Range(PreviousInput.columns)
    IN SelectSeq(GroupMetrics, InBoth)

\* The four result columns of metric m.
FourColumns(m) == {previous_col(m), current_col(m), change_col(m), growth_col(m)}

\* v2 has aggregated both periods to non-empty frames and is past the
\* comparison.
ComparisonCalled ==
    /\ script = "v2"
    /\ BothSummarized
    /\ ~IsEmptyFrame(current_summary)
    /\ ~IsEmptyFrame(previous_summary)
    /\ pc # "prev_grouped"

SaveEntries == {"saved", "save_failed", "save_skipped"}
ModeEntries == {"run_dimension_summary", "run_metric_interval_summary"}
AnalysisEntries ==
    ModeEntries \cup {"get_interval_cutpoints", "create_interval_labels",
                      "apply_interval_binning", "group_and_summarize",
                      "summary_failed", "calculate_comparison",
                      "format_and_display_results"}

Logged(E) == {i \in DOMAIN log : log[i] \in E}

\* The save step of a v2 run comes last, behind the whole chain of steps.
SaveComesLast ==
    (script = "v2" /\ Logged(SaveEntries) # {}) =>
        /\ Len(log) >= 10
        /\ log[1] = "date_valid" /\ log[2] = "date_valid"
        /\ log[3] = "files_found"
        /\ current_file.status # "missing" /\ previous_file.status # "missing"
        /\ log[4] = "files_loaded"
        /\ current_file.status = "ok" /\ previous_file.status = "ok"
        /\ current_month_data = current_file.sheet
        /\ previous_month_data = previous_file.sheet
        /\ log[5] = "analyze_columns"
        /\ log[6] = "get_analysis_mode_choice"
        /\ Logged(ModeEntries) = {7}
        /\ log[7] = (IF mode = "dimension" THEN "run_dimension_summary"
                     ELSE "run_metric_interval_summary")
        /\ log[Len(log) - 2] = "calculate_comparison"
        /\ ~IsEmptyFrame(final_result)
        /\ log[Len(log) - 1] = "format_and_display_results"
        /\ Logged(SaveEntries) = {Len(log)}

\* A v2 run whose file is missing or cannot be loaded classifies, analyses
\* and saves nothing.
BadFileStopsRun ==
    (script = "v2"
     /\ (current_file.status # "ok" \/ previous_file.status # "ok")) =>
        /\ Logged({"analyze_columns", "get_analysis_mode_choice"}
                  \cup AnalysisEntries \cup SaveEntries) = {}
        /\ dimension_columns = <<>> /\ metric_columns = <<>>
        /\ NoAnalysisStepRan

\* C30: run of data_analyzer_v2.py reaches its save step only after, in
\* this order, both dates were valid, both files were found, both files
\* were loaded, the classification ran, exactly one analysis mode ran and
\* returned a non-empty result, and the result was displayed; with a
\* missing or unloadable file no classification, analysis or save runs.
C30_SaveOnlyAfterTheWholeChain == SaveComesLast /\ BadFileStopsRun

\* An interval-mode run of v2 that has written its result.
C30_Witness ==
    /\ script = "v2"
    /\ mode = "interval"
    /\ pc = "done"
    /\ log[Len(log)] = "saved"

====
